---- MODULE Spec2Model ----
(***************************************************************************)
(* Transaction Finder (main.py, finder.py): the run of main() as a state   *)
(* machine.  One action per external request (the response is its input),  *)
(* followed by everything main() does up to the next request.              *)
(*                                                                         *)
(* Amounts.  ETH amounts are naturals counting one fixed quantum.  A float  *)
(* keeps FloatDigits significant decimal digits (a double keeps 53 bits):  *)
(* converting an amount to float rounds it, and on amounts below           *)
(* 10^FloatDigits the program's float additions and comparisons are exact. *)
(* Token amounts are integer minor units, and the                          *)
(* value window is compared after cross-multiplying by 100 * 10^decimals.  *)
(* Dates are day numbers since 1970-01-01.  None is Python's None.         *)
(***************************************************************************)
EXTENDS Integers, Sequences, FiniteSets, TLC

VARIABLES
    args,        \* argparse.Namespace of the run, plus the API key of the environment
    chainOf,     \* the explorer's data: source -> the records it holds in the block range
    txs,         \* the explorer's data: tx hash -> native value and receipt logs
    pc,          \* position of main()
    nreq,        \* number of requests sent to the explorer API so far
    slept,       \* a time.sleep(POLITE_SLEEP) has run since the last request
    resp,        \* the last request and the kind of its response
    start_ts, end_ts,        \* the search window
    start_block, end_block,  \* the block range
    ti,          \* index in token_list of the token being fetched
    page,        \* page number of the running fetch
    results,     \* results list of the running fetch
    transfers,   \* the list the last fetch returned
    candidates,  \* candidates list of main()
    ci,          \* index of the candidate being resolved
    matches,     \* matches (combos in ETH-only mode)
    mi           \* position in the MEV lookback loop

vars == << args, chainOf, txs, pc, nreq, slept, resp, start_ts, end_ts,
           start_block, end_block, ti, page, results, transfers, candidates,
           ci, matches, mi >>

----------------------------------------------------------------------------
(* Bounds of the model *)

\* page size of the modelled explorer (offset=10000 in the source, scaled down)
PageSize == 2
\* longest record list a source holds in the fetch specification
MaxChain == 5
\* most candidates handed to the matcher in the matcher specification
MaxCands == 4
\* longest transfer list handed to the filter in the filter specification
MaxTransfers == 2
\* significant decimal digits of a float (53 bits in the source, scaled down)
FloatDigits == 2

None == -1

Abs(x) == IF x < 0 THEN -x ELSE x
Min(a, b) == IF a < b THEN a ELSE b

SeqsUpTo(S, n) == UNION { [1..k -> S] : k \in 0..n }

Range(s) == { s[i] : i \in 1..Len(s) }

RECURSIVE Pow10(_)
Pow10(d) == IF d = 0 THEN 1 ELSE 10 * Pow10(d - 1)

\* the spacing of the floats around the amount x
RECURSIVE Quantum(_)
Quantum(x) == IF x < Pow10(FloatDigits) THEN 1 ELSE 10 * Quantum(x \div 10)

\* float(x) for an amount x >= 0: the nearest float, ties to the even one
Float(x) ==
    LET q == Quantum(x)
        lo == (x \div q) * q
        rem == x - lo
    IN  IF 2 * rem < q THEN lo
        ELSE IF 2 * rem > q THEN lo + q
        ELSE IF (x \div q) % 2 = 0 THEN lo ELSE lo + q

----------------------------------------------------------------------------
(* finder.py: registries and helpers *)

TOKEN_REGISTRY == [USDC |-> "0xa0b8", USDT |-> "0xdac1"]

TOKEN_DECIMALS == [USDC |-> 6, USDT |-> 6]

WETH_ADDR == "0xc02a"

ROUTER_ADDRS == {"0x7a25", "0xe592"}

\* str.lower() on the addresses of the model: three of them are mixed-case
Lower(a) ==
    CASE a = "0x7A25" -> "0x7a25"
      [] a = "0xC02A" -> "0xc02a"
      [] a = "0xBAD0" -> "0xbad0"
      [] OTHER -> a

is_router(addr) == Lower(addr) \in ROUTER_ADDRS

SecondsPerDay == 86400

\* ts(date_str, hhmmss) for the two times main() uses
ts(date, hhmmss) ==
    IF hhmmss = "23:59:59" THEN date * SecondsPerDay + 86399
    ELSE date * SecondsPerDay

Upper(s) == IF s = "usdc" THEN "USDC" ELSE s

\* token_list = [t.strip().upper() for t in args.tokens.split(",") if t.strip()]
TokenList(a) == [i \in 1..Len(a.tokens) |-> Upper(a.tokens[i])]

Known(sym) == sym \in DOMAIN TOKEN_REGISTRY

\* the block the explorer names for a timestamp (one block per 12 seconds)
BlockAt(unix_ts) == unix_ts \div 12

----------------------------------------------------------------------------
(* main.py 161-171: the search window *)

Window(a) ==
    IF a.start_date # None /\ a.end_date # None
    THEN [ok |-> TRUE,
          start_ts |-> ts(a.start_date, "00:00:00"),
          end_ts |-> ts(a.end_date, "23:59:59")]
    ELSE IF a.date # None
    THEN LET center_start == ts(a.date, "00:00:00")
             window_secs == a.hours_window * 3600
             half == window_secs \div 2
         IN  [ok |-> TRUE,
              start_ts |-> center_start - half,
              end_ts |-> IF a.hours_window > 24
                         THEN center_start + 24 * 3600 + half - 1
                         ELSE center_start + half - 1]
    ELSE [ok |-> FALSE, start_ts |-> None, end_ts |-> None]

----------------------------------------------------------------------------
(* finder.py 69-140: one page of get_token_transfers / get_contract_txs *)

\* the explorer's answer for page p of a source holding chain
ServePage(chain, p) ==
    LET items == SubSeq(chain, (p - 1) * PageSize + 1, Min(p * PageSize, Len(chain)))
    IN  IF items = << >> THEN [kind |-> "none", items |-> << >>]
        ELSE [kind |-> "ok", items |-> items]

\* what a request for page p can return: the page, an error message in place
\* of the records (result is a string), or an HTTP / network error
PageResponses(chain, p) ==
    { ServePage(chain, p),
      [kind |-> "err", items |-> << >>],
      [kind |-> "raise", items |-> << >>] }

\* break when the page holds fewer than the page size
LastPageAlt(page_items) == Len(page_items) <= PageSize

LastPage(page_items) == Len(page_items) < PageSize

\* the loop body after the response r: the new results and page, and whether the loop ended
AfterPage(r, res, p) ==
    IF r.kind = "none"
    THEN [done |-> TRUE, results |-> res, page |-> p, slept |-> FALSE]
    ELSE LET page_items == IF r.kind = "err" THEN << >> ELSE r.items
         IN  IF LastPage(page_items)
             THEN [done |-> TRUE, results |-> res \o page_items, page |-> p,
                   slept |-> FALSE]
             ELSE [done |-> FALSE, results |-> res \o page_items, page |-> p + 1,
                   slept |-> TRUE]

----------------------------------------------------------------------------
(* main.py 284-307: the filter loop over the transfers of one token *)

\* lo <= amount <= hi with amount = int(t["value"]) / 10 ** decimals,
\* lo = stable_amount * (1 - stable_pct_tol / 100), hi = stable_amount * (1 + stable_pct_tol / 100)
InWindowAlt(value, decimals, a) ==
    /\ a.stable_amount * (100 - a.stable_pct_tol) * Pow10(decimals) < value * 100
    /\ value * 100 < a.stable_amount * (100 + a.stable_pct_tol) * Pow10(decimals)

InWindow(value, decimals, a) ==
    /\ a.stable_amount * (100 - a.stable_pct_tol) * Pow10(decimals) <= value * 100
    /\ value * 100 <= a.stable_amount * (100 + a.stable_pct_tol) * Pow10(decimals)

\* main.py 180-190: the lines of the blocklist file, lowercased
load_blocklist(a) == { Lower(ln) : ln \in a.blocklist }

Keep(t, sym, a) ==
    LET frm == Lower(t.from)
        to_addr == Lower(t.to)
        block_set == load_blocklist(a)
    IN  /\ ~(block_set # {} /\ (frm \in block_set \/ to_addr \in block_set))
        /\ ~(a.require_router /\ ~(is_router(frm) \/ is_router(to_addr)))
        /\ InWindow(t.value, TOKEN_DECIMALS[sym], a)

Candidate(t, sym) ==
    [sym |-> sym, hash |-> t.hash, time |-> t.timeStamp, usdc |-> t.value,
     from |-> Lower(t.from), to |-> Lower(t.to), eth_in |-> None]

RECURSIVE FilterTransfers(_, _, _)
FilterTransfers(trs, sym, a) ==
    IF trs = << >> THEN << >>
    ELSE (IF Keep(Head(trs), sym, a) THEN << Candidate(Head(trs), sym) >> ELSE << >>)
         \o FilterTransfers(Tail(trs), sym, a)

----------------------------------------------------------------------------
(* finder.py 143-211: value lookups *)

\* the value field of a transaction that is no hexadecimal number
Malformed == -2

\* int(wei_hex, 16) / 1e18: the amounts of the model count one quantum of ETH,
\* so the division is a change of unit and a conversion to float
wei_to_eth(wei) == Float(wei)

\* None when the result or its value field is absent or empty, or when
\* wei_to_eth raises; the amount otherwise
get_tx_eth_value(tx) ==
    IF tx.nat = None THEN None
    ELSE IF tx.nat = Malformed THEN None
    ELSE wei_to_eth(tx.nat)

TRANSFER_PREFIX == "0xddf252ad"

\* a log counts when WETH emitted it, it has three topics, the first is the
\* Transfer topic and the third names router_addr
LogCounts(log, router_addr) ==
    /\ Lower(log.address) = WETH_ADDR
    /\ Len(log.topics) >= 3
    /\ log.topics[1] = TRANSFER_PREFIX
    /\ Lower(log.topics[3]) = Lower(router_addr)

RECURSIVE WethSum(_, _)
WethSum(logs, router_addr) ==
    IF logs = << >> THEN 0
    ELSE (IF LogCounts(Head(logs), router_addr) THEN Head(logs).data ELSE 0)
         + WethSum(Tail(logs), router_addr)

get_weth_input_into(logs, router_addr) ==
    LET weth_in == WethSum(logs, router_addr)
    IN  IF weth_in > 0 THEN weth_in ELSE None

\* main.py 313-316: the value of a candidate after its native lookup returned val
NeedsFallbackAlt(val) == val = None

NeedsFallback(val) == val = None \/ val = 0

RouterAddr(cand) == IF is_router(cand.from) THEN cand.from ELSE cand.to

----------------------------------------------------------------------------
(* main.py 218-232, 325-333: the combination search *)

RECURSIVE Concat(_)
Concat(ss) == IF ss = << >> THEN << >> ELSE Head(ss) \o Concat(Tail(ss))

RECURSIVE SumSeq(_)
SumSeq(s) == IF s = << >> THEN 0 ELSE Head(s) + SumSeq(Tail(s))

\* itertools.combinations over positions lo..n, r at a time, in its order
RECURSIVE CombFrom(_, _, _)
CombFrom(lo, n, r) ==
    IF r = 0 THEN << << >> >>
    ELSE IF lo > n THEN << >>
    ELSE LET rest == CombFrom(lo + 1, n, r - 1)
         IN  [j \in 1..Len(rest) |-> << lo >> \o rest[j]] \o CombFrom(lo + 1, n, r)

\* the sizes tried from the largest down
CombosReversed(n, k) ==
    Concat([r \in 1..Min(k, n) |-> CombFrom(1, n, Min(k, n) + 1 - r)])

\* for r in range(1, min(max_combo, n) + 1): for combo in itertools.combinations(xs, r)
CombosAlt(n, k) == Concat([r \in 1..(Min(k, n) - 1) |-> CombFrom(1, n, r)])

Combos(n, k) == Concat([r \in 1..Min(k, n) |-> CombFrom(1, n, r)])

\* positions i, in order, with flags[i] true
Positions(flags) ==
    LET T(i) == flags[i]
    IN  SelectSeq([i \in 1..Len(flags) |-> i], T)

\* c["eth_in"] and c["eth_in"] > 0
HasEth(c) == c.eth_in # None /\ c.eth_in # 0 /\ c.eth_in > 0

\* the matches among the candidates at positions w (a group); vals[i] is the
\* ETH value of candidate i
MatchGroup(cands, w, vals, target, tol, k) ==
    LET all == Combos(Len(w), k)
        built == [j \in 1..Len(all) |->
                    LET combo == [x \in 1..Len(all[j]) |-> w[all[j][x]]]
                    IN  [total_eth |-> SumSeq([x \in 1..Len(combo) |-> vals[combo[x]]]),
                         hashes |-> [x \in 1..Len(combo) |-> cands[combo[x]].hash],
                         combo |-> combo]]
        Within(m) == Abs(m.total_eth - target) <= tol
    IN  SelectSeq(built, Within)

\* main.py 325-333
Matches(cands, a) ==
    MatchGroup(cands,
               Positions([i \in 1..Len(cands) |-> HasEth(cands[i])]),
               [i \in 1..Len(cands) |-> cands[i].eth_in],
               a.eth, a.eth_tol, a.max_combo)

----------------------------------------------------------------------------
(* main.py 195-232: ETH-only mode; 248-264: deposit search *)

\* abs(val_eth - target_eth) <= eth_tol, on the exact Decimal val_eth
WithinEth(value, a) == Abs(value - a.eth) <= a.eth_tol

RECURSIVE EthCandidates(_, _)
EthCandidates(trs, a) ==
    IF trs = << >> THEN << >>
    ELSE LET t == Head(trs)
         IN  (IF WithinEth(t.value, a)
              THEN << [hash |-> t.hash, time |-> t.timeStamp, from |-> Lower(t.from),
                       to |-> Lower(t.to), eth |-> Float(t.value)] >>
              ELSE << >>) \o EthCandidates(Tail(trs), a)

\* the keys of by_sender, in insertion order
RECURSIVE Senders(_)
Senders(cands) ==
    IF cands = << >> THEN << >>
    ELSE LET before == Senders(SubSeq(cands, 1, Len(cands) - 1))
             s == cands[Len(cands)].from
         IN  IF s \in Range(before) THEN before ELSE Append(before, s)

EthOnlyCombos(cands, a) ==
    LET senders == Senders(cands)
        group(g) ==
            LET found == MatchGroup(cands,
                                    Positions([i \in 1..Len(cands) |-> cands[i].from = senders[g]]),
                                    [i \in 1..Len(cands) |-> cands[i].eth],
                                    a.eth, a.eth_tol, a.max_combo)
            IN  [j \in 1..Len(found) |->
                    [sender |-> senders[g], total_eth |-> Float(found[j].total_eth),
                     hashes |-> found[j].hashes, combo |-> found[j].combo]]
    IN  Concat([g \in 1..Len(senders) |-> group(g)])

----------------------------------------------------------------------------
(* main.py 143-394: main() *)

\* the first known token at or after position i of token_list (Len + 1: none)
RECURSIVE NextKnown(_, _)
NextKnown(tl, i) ==
    IF i > Len(tl) THEN i
    ELSE IF Known(tl[i]) THEN i ELSE NextKnown(tl, i + 1)

\* every hash of every match, in the order the MEV lookback visits them
MevHashes(ms) == Concat([m \in 1..Len(ms) |-> ms[m].hashes])

\* an exception leaves main(): nothing is caught
Raise(api) ==
    /\ pc' = "crash"
    /\ nreq' = nreq + 1
    /\ slept' = FALSE
    /\ resp' = [api |-> api, kind |-> "raise"]
    /\ UNCHANGED << args, chainOf, txs, start_ts, end_ts, start_block, end_block,
                    ti, page, results, transfers, candidates, ci, matches, mi >>

\* main.py 144-159
Start ==
    /\ pc = "start"
    /\ pc' = IF ~args.api_key THEN "exit"
             ELSE IF args.date # None /\ args.start_date = None THEN "stats_block1"
             ELSE "window"
    /\ UNCHANGED << args, chainOf, txs, nreq, slept, resp, start_ts, end_ts,
                    start_block, end_block, ti, page, results, transfers,
                    candidates, ci, matches, mi >>

\* main.py 124-127 (basic_stats)
StatsStartBlock ==
    /\ pc = "stats_block1"
    /\ \/ Raise("block")
       \/ /\ pc' = "stats_block2"
          /\ nreq' = nreq + 1
          /\ slept' = FALSE
          /\ resp' = [api |-> "block", kind |-> "ok"]
          /\ UNCHANGED << args, chainOf, txs, start_ts, end_ts, start_block,
                          end_block, ti, page, results, transfers, candidates,
                          ci, matches, mi >>

\* main.py 128-135 (basic_stats)
StatsEndBlock ==
    /\ pc = "stats_block2"
    /\ \/ Raise("block")
       \/ /\ nreq' = nreq + 1
          /\ slept' = FALSE
          /\ resp' = [api |-> "block", kind |-> "ok"]
          /\ ti' = NextKnown(TokenList(args), 1)
          /\ pc' = IF ti' <= Len(args.tokens) THEN "stats_fetch" ELSE "window"
          /\ page' = 1
          /\ results' = << >>
          /\ UNCHANGED << args, chainOf, txs, start_ts, end_ts, start_block,
                          end_block, transfers, candidates, ci, matches, mi >>

\* main.py 137-140 (basic_stats): one request of get_token_transfers
StatsFetchPage ==
    /\ pc = "stats_fetch"
    /\ \E r \in PageResponses(chainOf[TokenList(args)[ti]], page) :
         IF r.kind = "raise" THEN Raise("tokentx")
         ELSE LET nxt == AfterPage(r, results, page)
                  tn == NextKnown(TokenList(args), ti + 1)
              IN  /\ nreq' = nreq + 1
                  /\ slept' = nxt.slept
                  /\ resp' = [api |-> "tokentx", kind |-> r.kind]
                  /\ IF ~nxt.done
                     THEN /\ page' = nxt.page
                          /\ results' = nxt.results
                          /\ UNCHANGED << pc, ti >>
                     ELSE /\ page' = 1
                          /\ results' = << >>
                          /\ ti' = tn
                          /\ pc' = IF tn <= Len(args.tokens) THEN "stats_fetch" ELSE "window"
                  /\ UNCHANGED << args, chainOf, txs, start_ts, end_ts, start_block,
                                  end_block, transfers, candidates, ci, matches, mi >>

\* main.py 161-173
ComputeWindow ==
    /\ pc = "window"
    /\ LET w == Window(args)
       IN  IF w.ok
           THEN /\ start_ts' = w.start_ts
                /\ end_ts' = w.end_ts
                /\ pc' = "block1"
           ELSE /\ pc' = "exit"
                /\ UNCHANGED << start_ts, end_ts >>
    /\ UNCHANGED << args, chainOf, txs, nreq, slept, resp, start_block, end_block,
                    ti, page, results, transfers, candidates, ci, matches, mi >>

\* main.py 175
StartBlock ==
    /\ pc = "block1"
    /\ \/ Raise("block")
       \/ /\ pc' = "block2"
          /\ nreq' = nreq + 1
          /\ slept' = FALSE
          /\ resp' = [api |-> "block", kind |-> "ok"]
          /\ start_block' = BlockAt(start_ts)
          /\ UNCHANGED << args, chainOf, txs, start_ts, end_ts, end_block, ti,
                          page, results, transfers, candidates, ci, matches, mi >>

\* main.py 176-195, 248, 278-281
EndBlock ==
    /\ pc = "block2"
    /\ \/ Raise("block")
       \/ /\ nreq' = nreq + 1
          /\ slept' = FALSE
          /\ resp' = [api |-> "block", kind |-> "ok"]
          /\ end_block' = BlockAt(end_ts)
          /\ page' = 1
          /\ results' = << >>
          /\ candidates' = << >>
          /\ IF args.eth_only THEN pc' = "eth_fetch" /\ UNCHANGED ti
             ELSE IF args.deposit_search THEN pc' = "dep_fetch" /\ UNCHANGED ti
             ELSE /\ ti' = NextKnown(TokenList(args), 1)
                  /\ pc' = IF ti' <= Len(args.tokens) THEN "fetch" ELSE "match"
          /\ UNCHANGED << args, chainOf, txs, start_ts, end_ts, start_block,
                          transfers, ci, matches, mi >>

\* main.py 197-246: one request of get_token_transfers(WETH_ADDR), then the search
EthOnlyFetchPage ==
    /\ pc = "eth_fetch"
    /\ \E r \in PageResponses(chainOf["WETH"], page) :
         IF r.kind = "raise" THEN Raise("tokentx")
         ELSE LET nxt == AfterPage(r, results, page)
              IN  /\ nreq' = nreq + 1
                  /\ slept' = nxt.slept
                  /\ resp' = [api |-> "tokentx", kind |-> r.kind]
                  /\ page' = nxt.page
                  /\ results' = nxt.results
                  /\ IF ~nxt.done
                     THEN UNCHANGED << pc, transfers, candidates, matches >>
                     ELSE /\ transfers' = nxt.results
                          /\ candidates' = EthCandidates(nxt.results, args)
                          /\ matches' = EthOnlyCombos(candidates', args)
                          /\ pc' = "done"
                  /\ UNCHANGED << args, chainOf, txs, start_ts, end_ts, start_block,
                                  end_block, ti, ci, mi >>

\* main.py 250-276: one request of get_contract_txs(WETH_ADDR), then the scan
DepositFetchPage ==
    /\ pc = "dep_fetch"
    /\ \E r \in PageResponses(chainOf["WETHTX"], page) :
         IF r.kind = "raise" THEN Raise("txlist")
         ELSE LET nxt == AfterPage(r, results, page)
              IN  /\ nreq' = nreq + 1
                  /\ slept' = nxt.slept
                  /\ resp' = [api |-> "txlist", kind |-> r.kind]
                  /\ page' = nxt.page
                  /\ results' = nxt.results
                  /\ IF ~nxt.done
                     THEN UNCHANGED << pc, transfers, candidates >>
                     ELSE /\ transfers' = nxt.results
                          /\ candidates' = EthCandidates(nxt.results, args)
                          /\ pc' = "done"
                  /\ UNCHANGED << args, chainOf, txs, start_ts, end_ts, start_block,
                                  end_block, ti, ci, matches, mi >>

\* main.py 282: one request of get_token_transfers(addr) for token_list[ti]
FetchPage ==
    /\ pc = "fetch"
    /\ \E r \in PageResponses(chainOf[TokenList(args)[ti]], page) :
         IF r.kind = "raise" THEN Raise("tokentx")
         ELSE LET nxt == AfterPage(r, results, page)
              IN  /\ nreq' = nreq + 1
                  /\ slept' = nxt.slept
                  /\ resp' = [api |-> "tokentx", kind |-> r.kind]
                  /\ page' = nxt.page
                  /\ results' = nxt.results
                  /\ IF ~nxt.done
                     THEN UNCHANGED << pc, transfers >>
                     ELSE /\ transfers' = nxt.results
                          /\ pc' = "filter"
                  /\ UNCHANGED << args, chainOf, txs, start_ts, end_ts, start_block,
                                  end_block, ti, candidates, ci, matches, mi >>

\* main.py 278-309: the filter loop over the fetched transfers, then the next token
FilterStep ==
    /\ pc = "filter"
    /\ candidates' = candidates \o FilterTransfers(transfers, TokenList(args)[ti], args)
    /\ ti' = NextKnown(TokenList(args), ti + 1)
    /\ page' = 1
    /\ results' = << >>
    /\ ci' = 1
    /\ pc' = IF ti' <= Len(args.tokens) THEN "fetch"
             ELSE IF candidates' = << >> THEN "match" ELSE "resolve"
    /\ UNCHANGED << args, chainOf, txs, nreq, slept, resp, start_ts, end_ts,
                    start_block, end_block, transfers, matches, mi >>

\* main.py 316-317 and the loop test of 311
Resolved(val) ==
    /\ candidates' = [candidates EXCEPT ![ci].eth_in = val]
    /\ slept' = TRUE
    /\ ci' = ci + 1
    /\ pc' = IF ci + 1 <= Len(candidates) THEN "resolve" ELSE "match"

\* main.py 312-313: the native value lookup of candidate ci
ResolveNative ==
    /\ pc = "resolve"
    /\ \/ Raise("tx")
       \/ /\ nreq' = nreq + 1
          /\ resp' = [api |-> "tx", kind |-> "ok"]
          /\ LET val == get_tx_eth_value(txs[candidates[ci].hash])
             IN  IF NeedsFallback(val)
                 THEN /\ pc' = "receipt"
                      /\ slept' = FALSE
                      /\ UNCHANGED << candidates, ci >>
                 ELSE Resolved(val)
          /\ UNCHANGED << args, chainOf, txs, start_ts, end_ts, start_block,
                          end_block, ti, page, results, transfers, matches, mi >>

\* main.py 314-315: the receipt lookup of candidate ci
ResolveReceipt ==
    /\ pc = "receipt"
    /\ \/ Raise("receipt")
       \/ /\ nreq' = nreq + 1
          /\ resp' = [api |-> "receipt", kind |-> "ok"]
          /\ Resolved(get_weth_input_into(txs[candidates[ci].hash].logs,
                                          RouterAddr(candidates[ci])))
          /\ UNCHANGED << args, chainOf, txs, start_ts, end_ts, start_block,
                          end_block, ti, page, results, transfers, matches, mi >>

\* main.py 319-343
MatchStep ==
    /\ pc = "match"
    /\ matches' = Matches(candidates, args)
    /\ mi' = 1
    /\ pc' = IF matches' # << >> /\ load_blocklist(args) # {} THEN "mev" ELSE "done"
    /\ UNCHANGED << args, chainOf, txs, nreq, slept, resp, start_ts, end_ts,
                    start_block, end_block, ti, page, results, transfers,
                    candidates, ci >>

\* main.py 345-360: one has_recent_mev_activity request
MevLookback ==
    /\ pc = "mev"
    /\ \/ Raise("recent")
       \/ /\ nreq' = nreq + 1
          /\ slept' = FALSE
          /\ resp' = [api |-> "recent", kind |-> "ok"]
          /\ mi' = mi + 1
          /\ pc' = IF mi + 1 <= Len(MevHashes(matches)) THEN "mev" ELSE "done"
          /\ UNCHANGED << args, chainOf, txs, start_ts, end_ts, start_block,
                          end_block, ti, page, results, transfers, candidates,
                          ci, matches >>

Next ==
    \/ Start
    \/ StatsStartBlock
    \/ StatsEndBlock
    \/ StatsFetchPage
    \/ ComputeWindow
    \/ StartBlock
    \/ EndBlock
    \/ EthOnlyFetchPage
    \/ DepositFetchPage
    \/ FetchPage
    \/ FilterStep
    \/ ResolveNative
    \/ ResolveReceipt
    \/ MatchStep
    \/ MevLookback

----------------------------------------------------------------------------
(* The runs checked: command lines and explorer data *)

\* most days after 1970-01-01 a date option names
MaxDay == 2

HASHES == << "h1", "h2", "h3", "h4", "h5", "h6" >>

\* the defaults of parse_args, amounts scaled to the model's small numbers
DefaultArgs ==
    [api_key |-> TRUE, date |-> 1, start_date |-> None, end_date |-> None,
     tokens |-> << "USDC", "USDT" >>, eth |-> 10, stable_amount |-> 10,
     stable_pct_tol |-> 10, eth_tol |-> 0, max_combo |-> 3, blocklist |-> {},
     require_router |-> FALSE, hours_window |-> 24, eth_only |-> FALSE,
     deposit_search |-> FALSE]

Dates == {None} \cup 1..MaxDay

\* command lines that differ in the API key and the window options
ArgsWindow ==
    { [DefaultArgs EXCEPT !.api_key = k, !.date = d, !.start_date = s,
                          !.end_date = e, !.hours_window = h] :
        k \in BOOLEAN, d \in {None, 1}, s \in Dates, e \in Dates, h \in {0, 12, 24, 48} }

\* command lines that differ in the tolerances
ArgsTol ==
    { [DefaultArgs EXCEPT !.eth_tol = t, !.stable_pct_tol = p, !.max_combo = k] :
        t \in {-1, 0, 1}, p \in {-10, 10}, k \in {1, 3} }

\* command lines that differ in the mode, the filters and the tokens
ArgsModes ==
    { [DefaultArgs EXCEPT !.eth_only = eo, !.deposit_search = ds, !.require_router = rr,
                          !.blocklist = bl, !.tokens = tk] :
        eo \in BOOLEAN, ds \in BOOLEAN, rr \in BOOLEAN,
        bl \in {{}, {"0xBAD0"}},
        tk \in {<< "usdc", "USDT" >>, << "DAI", "USDC" >>, << "DAI" >>} }

Transfer(h, f, t, v) == [hash |-> h, from |-> f, to |-> t, value |-> v, timeStamp |-> 100]

\* token transfers around the window 9000000..11000000 of the default command line
TokenTransfers ==
    { Transfer("h1", "0x7A25", "0xa11c", 9000000),
      Transfer("h2", "0xa11c", "0xbad0", 10000000),
      Transfer("h3", "0xa11c", "0xb0b0", 11000000),
      Transfer("h4", "0xb0b0", "0x7a25", 11000001),
      Transfer("h1", "0xa11c", "0x7a25", 10000000),
      Transfer("h2", "0xb0b0", "0xa11c", 8999999) }

Log(a, tp, d) == [address |-> a, topics |-> tp, data |-> d]

ReceiptLogs ==
    { Log("0xC02A", << TRANSFER_PREFIX, "0xa11c", "0x7a25" >>, 3),
      Log("0xc02a", << TRANSFER_PREFIX, "0x7a25", "0xa11c" >>, 2),
      Log("0xa0b8", << TRANSFER_PREFIX, "0xa11c", "0x7a25" >>, 5),
      Log("0xc02a", << TRANSFER_PREFIX >>, 5),
      Log("0xc02a", << "0xe1fffcc4", "0x7a25" >>, 5) }

Tx(n, l) == [nat |-> n, logs |-> l]

NoTx == Tx(None, << >>)

DefaultChains ==
    [USDC |-> << Transfer("h1", "0x7A25", "0xa11c", 9000000),
                 Transfer("h2", "0xa11c", "0xbad0", 10000000),
                 Transfer("h3", "0xa11c", "0xb0b0", 11000000) >>,
     USDT |-> << Transfer("h4", "0xb0b0", "0x7a25", 11000001),
                 Transfer("h5", "0xa11c", "0x7a25", 10000000) >>,
     WETH |-> << Transfer("h1", "0xa11c", "0x7a25", 10),
                 Transfer("h2", "0xa11c", "0xb0b0", 5),
                 Transfer("h3", "0xa11c", "0xb0b0", 5) >>,
     WETHTX |-> << Transfer("h4", "0xa11c", "0xC02A", 10),
                   Transfer("h5", "0xb0b0", "0xC02A", 9) >>]

\* what the explorer holds for one transaction, in the runs of main()
TxChoices ==
    { Tx(10, << >>),
      Tx(0, << Log("0xC02A", << TRANSFER_PREFIX, "0xa11c", "0x7a25" >>, 3),
               Log("0xC02A", << TRANSFER_PREFIX, "0xa11c", "0x7a25" >>, 7) >>),
      NoTx }

TxTables ==
    { [h \in Range(HASHES) |->
          CASE h = "h1" -> a [] h = "h3" -> b [] h = "h5" -> c [] OTHER -> NoTx] :
        a \in TxChoices, b \in TxChoices, c \in TxChoices }

DefaultTxs == [h \in Range(HASHES) |-> IF h \in {"h1", "h3"} THEN Tx(5, << >>) ELSE NoTx]

\* main() has not run yet
AtStart ==
    /\ pc = "start"
    /\ nreq = 0
    /\ slept = FALSE
    /\ resp = [api |-> "none", kind |-> "none"]
    /\ start_ts = None
    /\ end_ts = None
    /\ start_block = None
    /\ end_block = None
    /\ ti = 1
    /\ page = 1
    /\ results = << >>
    /\ transfers = << >>
    /\ candidates = << >>
    /\ ci = 1
    /\ matches = << >>
    /\ mi = 1

Init ==
    /\ \/ args \in ArgsWindow /\ chainOf = DefaultChains /\ txs = DefaultTxs
       \/ args \in ArgsTol /\ chainOf = DefaultChains /\ txs \in TxTables
       \/ args \in ArgsModes /\ chainOf = DefaultChains /\ txs \in TxTables
    /\ AtStart

Spec == Init /\ [][Next]_vars

----------------------------------------------------------------------------
(* The combination search on its own: main() at line 325 with any resolved  *)
(* candidate list, and ETH-only mode from its fetch on                      *)

MatchArgs ==
    { [DefaultArgs EXCEPT !.eth = tg, !.eth_tol = t, !.max_combo = k] :
        tg \in {7, 10}, t \in {0, 1}, k \in {0, 2, 3} }

\* a candidate list of n candidates with the ETH values vals
CandidatesOf(vals) ==
    [i \in 1..Len(vals) |->
        [sym |-> "USDC", hash |-> HASHES[i], time |-> 100, usdc |-> 10000000,
         from |-> "0xa11c", to |-> "0x7a25", eth_in |-> vals[i]]]

EthOnlyArgs ==
    { [DefaultArgs EXCEPT !.eth_only = TRUE, !.eth = tg, !.eth_tol = t, !.max_combo = k] :
        tg \in {2, 10}, t \in {0, 1}, k \in {1, 2, 3} }

WethTransfers ==
    { Transfer("h1", f, "0x7a25", v) : f \in {"0xa11c", "0xb0b0"}, v \in {1, 2, 3} }

\* command lines of ETH-only mode with the target at and next to three times
\* the tolerance
EthOnlyEdgeArgs ==
    { [DefaultArgs EXCEPT !.eth_only = TRUE, !.eth = 200, !.eth_tol = t, !.max_combo = k] :
        t \in {66, 67}, k \in {1, 2} }

\* WETH transfers of one sender at the lower edge of 200 +- 66
EdgeTransfers ==
    { Transfer("h1", "0xa11c", "0x7a25", v) : v \in {130, 134, 200} }

\* every record of a chain is its own transaction
Rehash(chain) == [i \in 1..Len(chain) |-> [chain[i] EXCEPT !.hash = HASHES[i]]]

InitMatch ==
    /\ \/ /\ args \in MatchArgs
          /\ \E vals \in SeqsUpTo({None, 0, 2, 3, 5}, MaxCands) : candidates = CandidatesOf(vals)
          /\ pc = "match"
          /\ chainOf = DefaultChains
       \/ /\ args \in EthOnlyArgs
          /\ \E c \in SeqsUpTo(WethTransfers, MaxCands - 1) :
               chainOf = [DefaultChains EXCEPT !.WETH = Rehash(c)]
          /\ candidates = << >>
          /\ pc = "eth_fetch"
       \/ /\ args \in EthOnlyEdgeArgs
          /\ \E c \in SeqsUpTo(EdgeTransfers, MaxCands - 2) :
               chainOf = [DefaultChains EXCEPT !.WETH = Rehash(c)]
          /\ candidates = << >>
          /\ pc = "eth_fetch"
    /\ txs = DefaultTxs
    /\ nreq = 0
    /\ slept = FALSE
    /\ resp = [api |-> "none", kind |-> "none"]
    /\ start_ts = None
    /\ end_ts = None
    /\ start_block = None
    /\ end_block = None
    /\ ti = 1
    /\ page = 1
    /\ results = << >>
    /\ transfers = << >>
    /\ ci = Len(candidates) + 1
    /\ matches = << >>
    /\ mi = 1

NextMatch == MatchStep \/ EthOnlyFetchPage

SpecMatch == InitMatch /\ [][NextMatch]_vars

\* the search has run: main() is past line 333 (line 232 in ETH-only mode)
Searched == pc \in {"mev", "done"} /\ ~(args.deposit_search /\ ~args.eth_only)

\* the groups the search works on: all candidates with a positive value, or,
\* in ETH-only mode, the candidates of each sender
Groups ==
    IF args.eth_only
    THEN { { i \in 1..Len(candidates) : candidates[i].from = s } :
             s \in { candidates[i].from : i \in 1..Len(candidates) } }
    ELSE { { i \in 1..Len(candidates) :
               candidates[i].eth_in # None /\ candidates[i].eth_in > 0 } }

ValueOf(i) == IF args.eth_only THEN candidates[i].eth ELSE candidates[i].eth_in

RECURSIVE SumOver(_)
SumOver(S) ==
    IF S = {} THEN 0
    ELSE LET i == CHOOSE x \in S : TRUE IN ValueOf(i) + SumOver(S \ {i})

\* the subsets the claim names: of one group, of size 1..min(k, n), summing to
\* within the tolerance of the target
Wanted ==
    UNION { { S \in SUBSET G :
                /\ S # {}
                /\ Cardinality(S) <= Min(args.max_combo, Cardinality(G))
                /\ Abs(SumOver(S) - args.eth) <= args.eth_tol } : G \in Groups }

Reported == { Range(matches[j].combo) : j \in 1..Len(matches) }

----------------------------------------------------------------------------
(* The paginated fetches on their own: get_token_transfers (main.py 282) and *)
(* get_contract_txs (main.py 250) against any source                        *)

\* chains of records that differ in their hash, of every length up to MaxChain
FetchChains ==
    { Rehash(c) :
        c \in SeqsUpTo({ Transfer("h1", "0xa11c", "0x7a25", v) : v \in {9, 10} }, MaxChain) }

InitFetch ==
    /\ \/ /\ args = [DefaultArgs EXCEPT !.tokens = << "USDC" >>]
          /\ pc = "fetch"
          /\ \E c \in FetchChains : chainOf = [DefaultChains EXCEPT !.USDC = c]
       \/ /\ args = [DefaultArgs EXCEPT !.deposit_search = TRUE]
          /\ pc = "dep_fetch"
          /\ \E c \in FetchChains : chainOf = [DefaultChains EXCEPT !.WETHTX = c]
    /\ txs = DefaultTxs
    /\ nreq = 0
    /\ slept = FALSE
    /\ resp = [api |-> "none", kind |-> "none"]
    /\ start_ts = ts(1, "00:00:00") - 12 * 3600
    /\ end_ts = ts(1, "00:00:00") + 12 * 3600 - 1
    /\ start_block = BlockAt(start_ts)
    /\ end_block = BlockAt(end_ts)
    /\ ti = 1
    /\ page = 1
    /\ results = << >>
    /\ transfers = << >>
    /\ candidates = << >>
    /\ ci = 1
    /\ matches = << >>
    /\ mi = 1

NextFetch == FetchPage \/ DepositFetchPage

SpecFetch == InitFetch /\ [][NextFetch]_vars

\* the source of the fetch of SpecFetch
Served == IF args.deposit_search THEN chainOf["WETHTX"] ELSE chainOf["USDC"]

\* the fetch has returned, and the explorer answered every request with a page
\* of the source's records
FetchReturned == pc \in {"filter", "done"} /\ resp.kind \in {"ok", "none"}

\* C2: when every page before the last is full and the last is not, the fetch
\* requests pages 1..m in order, one request each, stops after page m, and returns
\* the pages' records concatenated: every record once, in the original order
C2_PaginationAggregates ==
    FetchReturned =>
        /\ transfers = Served
        /\ page = Len(Served) \div PageSize + 1
        /\ nreq = page

\* two pages, the first full and the second short, are returned whole
C2_Witness ==
    /\ FetchReturned
    /\ Len(Served) = PageSize + 1
    /\ nreq = 2
    /\ Len(transfers) = PageSize + 1

----------------------------------------------------------------------------
(* The filter stage on its own: main() at line 283 with any fetched list    *)

FilterArgs ==
    { [DefaultArgs EXCEPT !.tokens = << "USDC" >>, !.require_router = rr,
                          !.blocklist = bl, !.stable_pct_tol = p] :
        rr \in BOOLEAN, bl \in {{}, {"0xBAD0"}, {"0x7a25", "0xb0b0"}}, p \in {0, 10} }

InitFilter ==
    /\ args \in FilterArgs
    /\ transfers \in SeqsUpTo(TokenTransfers, MaxTransfers)
    /\ chainOf = [DefaultChains EXCEPT !.USDC = transfers]
    /\ txs = DefaultTxs
    /\ pc = "filter"
    /\ nreq = 3
    /\ slept = FALSE
    /\ resp = [api |-> "tokentx", kind |-> IF transfers = << >> THEN "none" ELSE "ok"]
    /\ start_ts = ts(1, "00:00:00") - 12 * 3600
    /\ end_ts = ts(1, "00:00:00") + 12 * 3600 - 1
    /\ start_block = BlockAt(start_ts)
    /\ end_block = BlockAt(end_ts)
    /\ ti = 1
    /\ page = Len(transfers) \div PageSize + 1
    /\ results = transfers
    /\ candidates = << >>
    /\ ci = 1
    /\ matches = << >>
    /\ mi = 1

SpecFilter == InitFilter /\ [][FilterStep]_vars

\* the filter loop over the fetched list has run
Filtered == pc \in {"resolve", "match"}

\* the predicates of the claim on a fetched transfer
NotBlocked(t) ==
    \A b \in args.blocklist : Lower(b) # Lower(t.from) /\ Lower(b) # Lower(t.to)

RouterOk(t) ==
    args.require_router =>
        \E r \in ROUTER_ADDRS : r = Lower(t.from) \/ r = Lower(t.to)

\* lo <= asset_value <= hi, lo = target * (1 - pct_tol), hi = target * (1 + pct_tol),
\* in units of 1/100 of a minor unit of the token
InValueWindow(t) ==
    LET unit == 1000000
        lo == args.stable_amount * unit * (100 - args.stable_pct_tol)
        hi == args.stable_amount * unit * (100 + args.stable_pct_tol)
    IN  lo <= 100 * t.value /\ 100 * t.value <= hi

Passes(t) == NotBlocked(t) /\ RouterOk(t) /\ InValueWindow(t)

Passing == { i \in 1..Len(transfers) : Passes(transfers[i]) }

\* the i-th smallest member of a set of positions
Nth(S, i) == CHOOSE x \in S : Cardinality({ y \in S : y <= x }) = i

----------------------------------------------------------------------------
(* The resolution loop and the search after it: main() at line 311 with any *)
(* candidate list and any transaction data                                  *)

ResolveTransfers ==
    { Transfer("h1", "0x7A25", "0xa11c", 9000000),
      Transfer("h1", "0xa11c", "0xb0b0", 10000000),
      Transfer("h2", "0xa11c", "0x7a25", 10000000),
      Transfer("h3", "0xa11c", "0xb0b0", 11000000) }

\* what the explorer can hold for one transaction: a native value, or none or
\* zero with any receipt logs
TxWide ==
    { Tx(10, << >>), Tx(3, << Log("0xc02a", << TRANSFER_PREFIX, "0xa11c", "0x7a25" >>, 7) >>) }
    \cup { Tx(n, l) : n \in {None, 0}, l \in SeqsUpTo(ReceiptLogs, 2) }
    \cup { Tx(Malformed, << Log("0xC02A", << TRANSFER_PREFIX, "0xa11c", "0x7a25" >>, 3) >>) }

WideTxTables ==
    { [h \in Range(HASHES) |->
          CASE h = "h1" -> a [] h = "h2" -> b [] h = "h3" -> c [] OTHER -> NoTx] :
        a \in TxWide, b \in TxChoices, c \in {Tx(10, << >>), NoTx} }

ResolveArgs == [DefaultArgs EXCEPT !.tokens = << "USDC" >>]

InitResolve ==
    /\ args = ResolveArgs
    /\ transfers \in SeqsUpTo(ResolveTransfers, MaxTransfers)
    /\ candidates = FilterTransfers(transfers, "USDC", args)
    /\ candidates # << >>
    /\ chainOf = [DefaultChains EXCEPT !.USDC = transfers]
    /\ txs \in WideTxTables
    /\ pc = "resolve"
    /\ nreq = 0
    /\ slept = FALSE
    /\ resp = [api |-> "none", kind |-> "none"]
    /\ start_ts = ts(1, "00:00:00") - 12 * 3600
    /\ end_ts = ts(1, "00:00:00") + 12 * 3600 - 1
    /\ start_block = BlockAt(start_ts)
    /\ end_block = BlockAt(end_ts)
    /\ ti = 2
    /\ page = 1
    /\ results = << >>
    /\ ci = 1
    /\ matches = << >>
    /\ mi = 1

NextResolve == ResolveNative \/ ResolveReceipt \/ MatchStep

SpecResolve == InitResolve /\ [][NextResolve]_vars

\* the native value the explorer holds for candidate i, and its receipt logs
NativeOf(i) == get_tx_eth_value(txs[candidates[i].hash])

LogsOf(i) == txs[candidates[i].hash].logs

NativeIsZeroOrAbsent(i) == NativeOf(i) = None \/ NativeOf(i) = 0

\* the number of candidates the loop is done with
NResolved == IF pc \in {"match", "mev", "done"} THEN Len(candidates) ELSE ci - 1

\* C4: a candidate whose native value is non-zero gets that value, with no
\* receipt lookup; one whose native value is zero or absent gets the WETH-log sum
\* if that is positive and stays unresolved otherwise; every candidate stays in
\* the list, and no unresolved one is a member of a match
C4_FallbackChain ==
    /\ \A i \in 1..Len(candidates) :
         IF i > NResolved THEN candidates[i].eth_in = None
         ELSE IF ~NativeIsZeroOrAbsent(i) THEN candidates[i].eth_in = NativeOf(i)
         ELSE LET s == WethSum(LogsOf(i), RouterAddr(candidates[i]))
              IN  candidates[i].eth_in = IF s > 0 THEN s ELSE None
    /\ pc = "receipt" => NativeIsZeroOrAbsent(ci)
    /\ pc # "crash" =>
         nreq = NResolved
                + Cardinality({ i \in 1..NResolved : NativeIsZeroOrAbsent(i) })
                + (IF pc = "receipt" THEN 1 ELSE 0)
    /\ [i \in 1..Len(candidates) |-> candidates[i].hash]
         = [i \in 1..Len(FilterTransfers(transfers, "USDC", args)) |->
              FilterTransfers(transfers, "USDC", args)[i].hash]
    /\ \A j \in 1..Len(matches) : \A i \in Range(matches[j].combo) :
         candidates[i].eth_in # None /\ candidates[i].eth_in # 0

\* a run that ends with a candidate of zero native value left unresolved and in
\* no match, beside one resolved from its WETH logs that is in a match
C4_Witness ==
    /\ pc = "done"
    /\ \E i, j \in 1..Len(candidates) :
         /\ NativeOf(i) = 0
         /\ candidates[i].eth_in = None
         /\ NativeOf(j) = 0
         /\ candidates[j].eth_in = 10
         /\ \E m \in 1..Len(matches) : matches[m].combo = << j >>

----------------------------------------------------------------------------
(* Claims on whole runs of main() *)

\* C5: a network error in a lookup made while resolving a candidate does not
\* abort the run
C5_LookupFailureIsolated ==
    (resp.kind = "raise" /\ resp.api \in {"tx", "receipt"}) => pc # "crash"

\* C6: a failed fetch of one token source does not abort the run
C6_SourceFailureIsolated ==
    (resp.kind = "raise" /\ resp.api = "tokentx" /\ start_block # None
        /\ ~args.eth_only) => pc # "crash"

\* C7: every request after the first is sent only after a sleep of POLITE_SLEEP
\* that followed the request before it
C7_RateCeiling == [][(nreq' = nreq + 1 /\ nreq > 0) => slept]_vars

\* the command line has an invalid or missing target parameter
InvalidConfig ==
    \/ args.eth_tol < 0
    \/ args.stable_pct_tol < 0
    \/ (args.date = None /\ (args.start_date = None \/ args.end_date = None))

\* C8: with an invalid or missing target parameter no request is ever made
C8_ConfigErrorsFirst == InvalidConfig => nreq = 0

\* C9: the window handed to block-range resolution has start_ts <= end_ts
C9_WindowOrdered == pc = "block1" => start_ts <= end_ts

\* C10: with a single --date and --hours-window H the window is H hours wide
C10_WindowWidth ==
    (pc = "block1" /\ args.start_date = None /\ args.end_date = None) =>
        end_ts - start_ts + 1 = args.hours_window * 3600

----------------------------------------------------------------------------
(* Claims on the receipt lookup of the resolution loop *)

\* a log the WETH contract emitted whose first topic is the Transfer topic
IsWethTransfer(log) ==
    /\ Lower(log.address) = WETH_ADDR
    /\ Len(log.topics) >= 1
    /\ log.topics[1] = TRANSFER_PREFIX

\* the amounts of all WETH Transfer logs of a receipt, summed
RECURSIVE AllTransfers(_)
AllTransfers(logs) ==
    IF logs = << >> THEN 0
    ELSE (IF IsWethTransfer(Head(logs)) THEN Head(logs).data ELSE 0)
         + AllTransfers(Tail(logs))

\* C11: the receipt lookup gives a candidate the sum of the amounts of all WETH
\* Transfer logs of its receipt: two such logs of 5 each give 10
C11_SumsAllWethTransfers ==
    \A i \in 1..NResolved :
        (NativeIsZeroOrAbsent(i) /\ AllTransfers(LogsOf(i)) > 0) =>
            candidates[i].eth_in = AllTransfers(LogsOf(i))

----------------------------------------------------------------------------
(* Claims on the order and the shape of the reported matches *)

\* the position of the first candidate of the group a match comes from
GroupFirst(m) ==
    IF args.eth_only
    THEN CHOOSE i \in 1..Len(candidates) :
           /\ candidates[i].from = m.sender
           /\ \A j \in 1..(i - 1) : candidates[j].from # m.sender
    ELSE 0

\* s comes before t in lexicographic order (s and t of one length)
LexLess(s, t) ==
    \E i \in 1..Len(s) : s[i] < t[i] /\ \A j \in 1..(i - 1) : s[j] = t[j]

\* m1 is enumerated before m2: by group, then by size, then lexicographically
Before(m1, m2) ==
    \/ GroupFirst(m1) < GroupFirst(m2)
    \/ /\ GroupFirst(m1) = GroupFirst(m2)
       /\ \/ Len(m1.combo) < Len(m2.combo)
          \/ Len(m1.combo) = Len(m2.combo) /\ LexLess(m1.combo, m2.combo)

\* C12: matches are reported by group (in the order of the groups' first
\* candidates), then by increasing size, then in lexicographic order of the
\* candidate positions, and the hashes of a match are in candidate order
C12_MatchOrdering ==
    Searched =>
        /\ \A j, k \in 1..Len(matches) : j < k => Before(matches[j], matches[k])
        /\ \A j \in 1..Len(matches) :
             LET m == matches[j]
             IN  /\ Len(m.hashes) = Len(m.combo)
                 /\ \A x \in 1..Len(m.combo) :
                      /\ m.hashes[x] = candidates[m.combo[x]].hash
                      /\ x > 1 => m.combo[x - 1] < m.combo[x]

\* values [5,3,2,5], target 7, tolerance 1: four pairs reported in index order,
\* their totals 8, 7, 8, 7 not sorted
C12_Witness ==
    /\ Searched
    /\ ~args.eth_only
    /\ [i \in 1..Len(candidates) |-> candidates[i].eth_in] = << 5, 3, 2, 5 >>
    /\ [j \in 1..Len(matches) |-> matches[j].combo]
         = << << 1, 2 >>, << 1, 3 >>, << 2, 4 >>, << 3, 4 >> >>
    /\ [j \in 1..Len(matches) |-> matches[j].total_eth] = << 8, 7, 8, 7 >>
    /\ matches[3].hashes = << "h2", "h4" >>

----------------------------------------------------------------------------
(* Claims on the address of the WETH-log fallback *)

\* C13: the address whose incoming WETH transfers the fallback sums is a
\* recognized router, for every candidate that reaches the fallback, with or
\* without --require-router
C13_FallbackAddrIsRouter ==
    pc = "receipt" => is_router(RouterAddr(candidates[ci]))

----------------------------------------------------------------------------
(* Claims on a page response that carries an error *)

\* C14: when a page response carries an error in place of records, the fetch
\* does not return normally with the records gathered so far
C14_PageErrorPropagated ==
    resp.kind = "err" => pc \notin {"filter", "done"}

----------------------------------------------------------------------------
(* Claims on ETH-only mode *)

\* C15: in ETH-only mode the members of a match share one sender, and when the
\* target exceeds three times the tolerance (tolerance >= 0) every match has
\* exactly one member
C15_EthOnlySingletons ==
    (Searched /\ args.eth_only) =>
        \A j \in 1..Len(matches) :
            /\ \A i \in Range(matches[j].combo) : candidates[i].from = matches[j].sender
            /\ (args.eth_tol >= 0 /\ args.eth > 3 * args.eth_tol) =>
                   Len(matches[j].combo) = 1

====
